---- MODULE Spec2Model ----
(***************************************************************************)
(* Model of cs747.uniprot: the taxonomy cache builder                      *)
(* (TaxonomyDatabaseBuilder), its snapshot file and the remote taxonomy    *)
(* lookup it drives.                                                       *)
(*                                                                         *)
(* One builder is alive at a time.  A run is: Construct (= __init__ ->     *)
(* init_db), Populate (= the prologue of populate()), then one Iterate per *)
(* organism id of the sequence table, the checkpoint saves the loop body   *)
(* makes, and the final save.  save() is modelled in the two steps the     *)
(* file system shows: open(path, 'wb') truncates the file, pickle.dump     *)
(* followed by the close of the `with` block makes it complete.            *)
(***************************************************************************)
EXTENDS Integers, Sequences, FiniteSets, TLC

\* ---------------------------------------------------------------- bounds
NumIds == 3
MaxLen == 3
MaxInterval == 2
MaxRuns == 3

OrganismIds == 1..NumIds

VARIABLES
    seq_ids,        \* seq_df['organism_id']: the organism ids of the sequence CSV
    file,           \* the snapshot file at db_file_path
    db,             \* self.db
    pc,             \* position of the builder
    recreate,       \* the recreate argument of the current builder
    save_interval,  \* the save_interval argument of the current populate()
    idx,            \* position of the for loop in seq_ids (next id to visit)
    count,          \* populate(): count
    prev_count,     \* populate(): prev_count
    calls,          \* calls of lookup_uniprot_organism in this run: [id, ok]
    progress,       \* the entry_count values printed at checkpoints in this run
    summary,        \* the (count, db_size) printed at the end of populate()
    saves,          \* completed save() calls of this run
    db0,            \* self.db when the current run's constructor returned
    file0,          \* the snapshot file when the current builder was constructed
    last,           \* how the previous run ended: its pc, self.db and the file
    origin,         \* the file when the current chain of aborted runs began
    wiped,          \* a recreate=True run of the chain has saved
    runs,           \* builders constructed so far
    tax_db,         \* Labeler: self.tax_db
    seq_df,         \* Labeler: self.seq_df['organism_id']
    memo,           \* Labeler: the cache of label_organism (functools.cache)
    label_col,      \* Labeler: self.seq_df['label'], <<>> while the column is unset
    ret,            \* Labeler: how the last call ended
    evals,          \* Labeler: per id, the runs of the cascade that returned a label
    data,           \* generate_balanced_data: the label column of its input frame
    frac,           \* generate_balanced_data: frac_population as num / den
    balanced        \* generate_balanced_data: how the last call ended

\* The state of the cache builder and its snapshot file.
bvars == <<seq_ids, file, db, pc, recreate, save_interval, idx, count, prev_count,
           calls, progress, summary, saves, db0, file0, last, origin, wiped, runs>>

\* The state of a Labeler instance.
lvars == <<tax_db, seq_df, memo, label_col, ret, evals>>

\* The input and the outcome of generate_balanced_data.
gvars == <<data, frac, balanced>>

vars == <<bvars, lvars, gvars>>

\* ------------------------------------------------------------ data model

Range(s) == {s[i] : i \in 1..Len(s)}

\* A taxonomy entry as the remote service returns it.  `revision` stands for
\* the content of the response (scientificName, lineage, ...): 1 is what the
\* service answers now, 0 what it answered when an older snapshot was built.
Entry(organism_id, revision) == [taxonId |-> organism_id, revision |-> revision]

\* lookup_uniprot_organism: the answer of a call that does not fail.
lookup_uniprot_organism(organism_id) == Entry(organism_id, 1)

\* db = {}
EmptyDb == [i \in {} |-> Entry(i, 1)]

\* self.db[organism_id] = entry
SetItem(d, organism_id, entry) ==
    [i \in DOMAIN d \cup {organism_id} |-> IF i = organism_id THEN entry ELSE d[i]]

\* The snapshot file: absent, opened for writing and not yet complete, or a
\* complete pickle.  A pickled dict is the collection of its (key, value)
\* items.
NoFile == [exists |-> FALSE, complete |-> FALSE, items |-> {}]

\* open(self.db_file_path, 'wb'): creates the file or truncates it to nothing.
OpenWb == [exists |-> TRUE, complete |-> FALSE, items |-> {}]

\* pickle.dump(self.db, db_file), the file closed by the with block.
pickle_dump(d) ==
    [exists |-> TRUE, complete |-> TRUE, items |-> {<<i, d[i]>> : i \in DOMAIN d}]

\* pickle.load(db_file) of a complete pickle.
pickle_load(f) ==
    [i \in {p[1] : p \in f.items} |-> (CHOOSE p \in f.items : p[1] = i)[2]]

\* load_taxonomy_db: open(path, 'rb') raises FileNotFoundError when there is
\* no file, pickle.load raises EOFError on a file that was truncated.
load_taxonomy_db(f) ==
    IF ~f.exists THEN [raised |-> "FileNotFoundError", value |-> EmptyDb]
    ELSE IF ~f.complete THEN [raised |-> "EOFError", value |-> EmptyDb]
    ELSE [raised |-> "", value |-> pickle_load(f)]

\* init_db that never reads the snapshot, as if recreate were always True.
init_db_ignores_file(f, rec) == [raised |-> "", db |-> EmptyDb]

\* init_db without the `except FileNotFoundError` clause.
init_db_uncaught(f, rec) ==
    IF rec = FALSE
    THEN LET r == load_taxonomy_db(f) IN [raised |-> r.raised, db |-> r.value]
    ELSE [raised |-> "", db |-> EmptyDb]

\* init_db: the value of self.db, and the exception that escapes, if any.
\* Only FileNotFoundError is caught.
init_db(f, rec) ==
    IF rec = FALSE
    THEN LET r == load_taxonomy_db(f) IN
         IF r.raised = "" THEN [raised |-> "", db |-> r.value]
         ELSE IF r.raised = "FileNotFoundError" THEN [raised |-> "", db |-> EmptyDb]
         ELSE [raised |-> r.raised, db |-> EmptyDb]
    ELSE [raised |-> "", db |-> EmptyDb]

\* A checkpoint test that waits for more than save_interval new entries.
CheckpointDueAfterInterval(c, p, k) == c - p > k

\* The checkpoint test without `count > prev_count`.
CheckpointDueOnEveryMultiple(c, p, k) == c % k = 0

\* The checkpoint test of the loop body.
CheckpointDue(c, p, k) == c > p /\ c % k = 0

\* ------------------------------------------------------------------ Init

\* Snapshots a previous build may have left: none, or a complete one whose
\* entries were fetched earlier.
OldSnapshots ==
    {NoFile} \cup {pickle_dump([i \in S |-> Entry(i, 0)]) : S \in SUBSET OrganismIds}

Inputs == UNION {[1..n -> OrganismIds] : n \in 0..MaxLen}

NoRun == [pc |-> "none", db |-> EmptyDb, file |-> NoFile]

\* No call of the Labeler or of generate_balanced_data has ended yet.
NoCall == [call |-> "", id |-> 0, raised |-> "", value |-> ""]

\* No Labeler was constructed.
NoLabeler ==
    /\ tax_db = EmptyDb
    /\ seq_df = <<>>
    /\ memo = <<>>
    /\ label_col = <<>>
    /\ ret = NoCall
    /\ evals = <<>>

\* generate_balanced_data was given no frame.
NoBalancing ==
    /\ data = <<>>
    /\ frac = [num |-> 0, den |-> 1]
    /\ balanced = [called |-> FALSE, raised |-> "", rows |-> <<>>]

Init ==
    /\ NoLabeler
    /\ NoBalancing
    /\ seq_ids \in Inputs
    /\ file \in OldSnapshots
    /\ db = EmptyDb
    /\ pc = "none"
    /\ recreate = FALSE
    /\ save_interval = 1
    /\ idx = 1
    /\ count = 0
    /\ prev_count = 0
    /\ calls = <<>>
    /\ progress = <<>>
    /\ summary = <<>>
    /\ saves = 0
    /\ db0 = EmptyDb
    /\ file0 = file
    /\ last = NoRun
    /\ origin = file
    /\ wiped = FALSE
    /\ runs = 0

\* --------------------------------------------------------------- actions

Ended == pc \in {"none", "done", "failed", "init_error", "killed"}

\* TaxonomyDatabaseBuilder(db_file_path, seq_csv_path, recreate=rec)
Construct(rec) ==
    /\ Ended
    /\ runs < MaxRuns
    /\ LET r == init_db(file, rec) IN
       /\ db' = r.db
       /\ db0' = r.db
       /\ pc' = IF r.raised = "" THEN "constructed" ELSE "init_error"
    /\ recreate' = rec
    /\ file0' = file
    /\ last' = [pc |-> pc, db |-> db, file |-> file]
    /\ origin' = IF pc = "failed" THEN origin ELSE file
    /\ wiped' = (pc = "failed" /\ (wiped \/ (recreate /\ saves > 0)))
    /\ runs' = runs + 1
    /\ idx' = 1
    /\ count' = 0
    /\ prev_count' = 0
    /\ calls' = <<>>
    /\ progress' = <<>>
    /\ summary' = <<>>
    /\ saves' = 0
    /\ UNCHANGED <<seq_ids, file, save_interval, lvars, gvars>>

\* populate(save_interval=k): the lines before the loop.
Populate(k) ==
    /\ pc = "constructed"
    /\ save_interval' = k
    /\ idx' = 1
    /\ count' = 0
    /\ prev_count' = 0
    /\ pc' = "loop"
    /\ UNCHANGED <<seq_ids, file, db, recreate, calls, progress, summary, saves,
                   db0, file0, last, origin, wiped, runs, lvars, gvars>>

\* Iterate without the `organism_id not in self.db` test: every id is looked
\* up and stored again.
IterateAlwaysFetch ==
    /\ pc = "loop"
    /\ idx <= Len(seq_ids)
    /\ LET organism_id == seq_ids[idx]
           c == count + 1
       IN
       /\ db' = SetItem(db, organism_id, lookup_uniprot_organism(organism_id))
       /\ calls' = Append(calls, [id |-> organism_id, ok |-> TRUE])
       /\ count' = c
       /\ IF c > prev_count /\ c % save_interval = 0
          THEN /\ file' = OpenWb
               /\ pc' = "checkpoint"
          ELSE /\ file' = file
               /\ pc' = "loop"
    /\ idx' = idx + 1
    /\ UNCHANGED <<seq_ids, recreate, save_interval, prev_count, progress, summary,
                   saves, db0, file0, last, origin, wiped, runs, lvars, gvars>>

\* One iteration of the for loop in which no lookup fails: the membership
\* test, the lookup and insertion on a miss, and the checkpoint test, up to
\* the open() of the checkpoint's save().
Iterate ==
    /\ pc = "loop"
    /\ idx <= Len(seq_ids)
    /\ LET organism_id == seq_ids[idx]
           miss == organism_id \notin DOMAIN db
           c == IF miss THEN count + 1 ELSE count
       IN
       /\ db' = IF miss
                THEN SetItem(db, organism_id, lookup_uniprot_organism(organism_id))
                ELSE db
       /\ calls' = IF miss THEN Append(calls, [id |-> organism_id, ok |-> TRUE])
                   ELSE calls
       /\ count' = c
       /\ IF CheckpointDue(c, prev_count, save_interval)
          THEN /\ file' = OpenWb
               /\ pc' = "checkpoint"
          ELSE /\ file' = file
               /\ pc' = "loop"
    /\ idx' = idx + 1
    /\ UNCHANGED <<seq_ids, recreate, save_interval, prev_count, progress, summary,
                   saves, db0, file0, last, origin, wiped, runs, lvars, gvars>>

\* FetchFail in a populate() that saves on its way out (try/finally).
FetchFailThenSave ==
    /\ pc = "loop"
    /\ idx <= Len(seq_ids)
    /\ seq_ids[idx] \notin DOMAIN db
    /\ calls' = Append(calls, [id |-> seq_ids[idx], ok |-> FALSE])
    /\ file' = pickle_dump(db)
    /\ saves' = saves + 1
    /\ pc' = "failed"
    /\ UNCHANGED <<seq_ids, db, recreate, save_interval, idx, count, prev_count,
                   progress, summary, db0, file0, last, origin, wiped, runs, lvars, gvars>>

\* An iteration whose lookup_uniprot_organism raises (urlopen or json.loads
\* fails): nothing in populate() catches it.
FetchFail ==
    /\ pc = "loop"
    /\ idx <= Len(seq_ids)
    /\ seq_ids[idx] \notin DOMAIN db
    /\ calls' = Append(calls, [id |-> seq_ids[idx], ok |-> FALSE])
    /\ pc' = "failed"
    /\ UNCHANGED <<seq_ids, file, db, recreate, save_interval, idx, count, prev_count,
                   progress, summary, saves, db0, file0, last, origin, wiped, runs, lvars, gvars>>

\* The rest of a checkpoint: pickle.dump and the close of the file, then
\* entry_count, prev_count and the progress line.
CheckpointDump ==
    /\ pc = "checkpoint"
    /\ file' = pickle_dump(db)
    /\ saves' = saves + 1
    /\ progress' = Append(progress, count - prev_count)
    /\ prev_count' = count
    /\ pc' = "loop"
    /\ UNCHANGED <<seq_ids, db, recreate, save_interval, idx, count, calls, summary,
                   db0, file0, last, origin, wiped, runs, lvars, gvars>>

\* populate() without its final save: the loop's end is the run's end.
FinalOpenMissing ==
    /\ pc = "loop"
    /\ idx > Len(seq_ids)
    /\ summary' = <<count, Cardinality(DOMAIN db)>>
    /\ pc' = "done"
    /\ UNCHANGED <<seq_ids, file, db, recreate, save_interval, idx, count, prev_count,
                   calls, progress, saves, db0, file0, last, origin, wiped, runs, lvars, gvars>>

\* The final save made only when entries were added since the last checkpoint.
FinalOpenOnlyIfNew ==
    /\ pc = "loop"
    /\ idx > Len(seq_ids)
    /\ IF count > prev_count
       THEN /\ file' = OpenWb
            /\ pc' = "final"
            /\ summary' = summary
       ELSE /\ file' = file
            /\ pc' = "done"
            /\ summary' = <<count, Cardinality(DOMAIN db)>>
    /\ UNCHANGED <<seq_ids, db, recreate, save_interval, idx, count, prev_count, calls,
                   progress, saves, db0, file0, last, origin, wiped, runs, lvars, gvars>>

\* The loop is exhausted: the open() of the final save().
FinalOpen ==
    /\ pc = "loop"
    /\ idx > Len(seq_ids)
    /\ file' = OpenWb
    /\ pc' = "final"
    /\ UNCHANGED <<seq_ids, db, recreate, save_interval, idx, count, prev_count, calls,
                   progress, summary, saves, db0, file0, last, origin, wiped, runs, lvars, gvars>>

\* The rest of the final save and the two summary lines.
FinalDump ==
    /\ pc = "final"
    /\ file' = pickle_dump(db)
    /\ saves' = saves + 1
    /\ summary' = <<count, Cardinality(DOMAIN db)>>
    /\ pc' = "done"
    /\ UNCHANGED <<seq_ids, db, recreate, save_interval, idx, count, prev_count, calls,
                   progress, db0, file0, last, origin, wiped, runs, lvars, gvars>>

\* The process is killed (a signal, a power cut) anywhere in a run.
Interrupt ==
    /\ pc \in {"constructed", "loop", "checkpoint", "final"}
    /\ pc' = "killed"
    /\ UNCHANGED <<seq_ids, file, db, recreate, save_interval, idx, count, prev_count,
                   calls, progress, summary, saves, db0, file0, last, origin, wiped,
                   runs, lvars, gvars>>

Next ==
    \/ \E rec \in BOOLEAN : Construct(rec)
    \/ \E k \in 1..MaxInterval : Populate(k)
    \/ Iterate
    \/ FetchFail
    \/ CheckpointDump
    \/ FinalOpen
    \/ FinalDump

Spec == Init /\ [][Next]_vars

NextInterrupt == Next \/ Interrupt

SpecInterrupt == Init /\ [][NextInterrupt]_vars

\* --------------------------------------------------------------- Labeler

MaxLineage == 3
MaxBody == 3
MaxRecords == 2

\* The scientific names the predicates test, and one they do not.
TaxNames ==
    {"Viruses", "cellular organisms", "Eukaryota", "Bacteria", "Archaea",
     "Viridiplantae", "Fungi", "Chordata", "Metazoa", "Amoebozoa"}

\* The labels label_organism can return.
Labels ==
    {"Viruses", "Bacteria", "Archaea", "Viridiplantae", "Fungi", "Chordata",
     "Metazoa", "Eukaryota"}

\* Lineages as lists of scientific names, most specific first: every short
\* list of names, and the longer lineages of eukaryotes that name several
\* sub-kingdoms.
ShortLineages == UNION {[1..n -> TaxNames] : n \in 0..MaxLineage}

SubKingdoms == {"Viridiplantae", "Fungi", "Chordata", "Metazoa", "Amoebozoa"}

EukaryoteLineages ==
    {body \o <<"Eukaryota", "cellular organisms">> :
        body \in UNION {[1..n -> SubKingdoms] : n \in 0..MaxBody}}

Lineages == ShortLineages \cup EukaryoteLineages

\* The organism ids the Labeler is asked about.
LabelIds == {1, 2}

\* A taxonomy entry as the Labeler reads it: entry['lineage'] is a list of
\* taxa, each with a 'scientificName'.
TaxEntry(organism_id, names) ==
    [taxonId |-> organism_id,
     lineage |-> [k \in 1..Len(names) |-> [scientificName |-> names[k]]]]

\* A call that returned v, a call that raised e.
Returned(v) == [raised |-> "", value |-> v]
Raised(e) == [raised |-> e, value |-> FALSE]

\* lineage[r] of a Python list: a negative r counts from the end.
PyIndex(l, r) ==
    LET k == IF r < 0 THEN Len(l) + r + 1 ELSE r + 1 IN
    IF k \in 1..Len(l) THEN Returned(l[k]) ELSE Raised("IndexError")

\* lineage_by_name that answers a placeholder lineage for an id it does not
\* hold (self.tax_db.get(organism_id, default)).
lineage_by_name_default(tdb, organism_id) ==
    IF organism_id \notin DOMAIN tdb THEN Returned(<<"unclassified">>)
    ELSE LET lin == tdb[organism_id].lineage IN
         Returned([k \in 1..Len(lin) |-> lin[k].scientificName])

\* Labeler.lineage_by_name: self.tax_db[organism_id] raises KeyError.
lineage_by_name(tdb, organism_id) ==
    IF organism_id \notin DOMAIN tdb THEN Raised("KeyError")
    ELSE LET lin == tdb[organism_id].lineage IN
         Returned([k \in 1..Len(lin) |-> lin[k].scientificName])

\* has_lineage that answers False where the lineage has no entry at tax_rank.
has_lineage_guarded(tdb, organism_id, tax_name, tax_rank) ==
    LET l == lineage_by_name(tdb, organism_id) IN
    IF l.raised # "" THEN l
    ELSE IF tax_rank = <<>> THEN Returned(tax_name \in Range(l.value))
    ELSE LET e == PyIndex(l.value, tax_rank[1]) IN
         IF e.raised # "" THEN Returned(FALSE) ELSE Returned(e.value = tax_name)

\* Labeler.has_lineage.  tax_rank is <<>> for None and <<r>> for the index r.
has_lineage(tdb, organism_id, tax_name, tax_rank) ==
    LET l == lineage_by_name(tdb, organism_id) IN
    IF l.raised # "" THEN l
    ELSE IF tax_rank = <<>> THEN Returned(tax_name \in Range(l.value))
    ELSE LET e == PyIndex(l.value, tax_rank[1]) IN
         IF e.raised # "" THEN e ELSE Returned(e.value = tax_name)

\* result = False; if c: result = x -- with the exceptions of c and x.
IfThen(c, x) ==
    IF c.raised # "" THEN c ELSE IF c.value THEN x ELSE Returned(FALSE)

\* is_virus that looks at the first entry of the lineage.
is_virus_first_entry(tdb, organism_id) == has_lineage(tdb, organism_id, "Viruses", <<0>>)

is_virus(tdb, organism_id) == has_lineage(tdb, organism_id, "Viruses", <<-1>>)

is_cellular_organism(tdb, organism_id) ==
    has_lineage(tdb, organism_id, "cellular organisms", <<-1>>)

is_eukaryote(tdb, organism_id) ==
    IfThen(is_cellular_organism(tdb, organism_id),
           has_lineage(tdb, organism_id, "Eukaryota", <<-2>>))

is_bacteria(tdb, organism_id) ==
    IfThen(is_cellular_organism(tdb, organism_id),
           has_lineage(tdb, organism_id, "Bacteria", <<-2>>))

is_archaea(tdb, organism_id) ==
    IfThen(is_cellular_organism(tdb, organism_id),
           has_lineage(tdb, organism_id, "Archaea", <<-2>>))

is_viridiplantae(tdb, organism_id) ==
    IfThen(is_eukaryote(tdb, organism_id),
           has_lineage(tdb, organism_id, "Viridiplantae", <<>>))

\* is_fungi without the is_eukaryote test.
is_fungi_anywhere(tdb, organism_id) == has_lineage(tdb, organism_id, "Fungi", <<>>)

is_fungi(tdb, organism_id) ==
    IfThen(is_eukaryote(tdb, organism_id),
           has_lineage(tdb, organism_id, "Fungi", <<>>))

is_chordata(tdb, organism_id) ==
    IfThen(is_eukaryote(tdb, organism_id),
           has_lineage(tdb, organism_id, "Chordata", <<>>))

\* if self.is_eukaryote(id) and not self.is_chordata(id): has_lineage("Metazoa")
is_metazoa(tdb, organism_id) ==
    LET e == is_eukaryote(tdb, organism_id) IN
    IF e.raised # "" THEN e
    ELSE IF ~e.value THEN Returned(FALSE)
    ELSE LET c == is_chordata(tdb, organism_id) IN
         IF c.raised # "" THEN c
         ELSE IF c.value THEN Returned(FALSE)
         ELSE has_lineage(tdb, organism_id, "Metazoa", <<>>)

\* One arm of the if/elif chain: the label when p holds, the rest of the
\* chain when it does not, p's exception when it raises.
Elif(p, label, rest) ==
    IF p.raised # "" THEN p ELSE IF p.value THEN Returned(label) ELSE rest

\* The chain without its final else: result stays None.
cascade_no_default(tdb, organism_id) ==
    Elif(is_virus(tdb, organism_id), "Viruses",
    Elif(is_bacteria(tdb, organism_id), "Bacteria",
    Elif(is_archaea(tdb, organism_id), "Archaea",
    Elif(is_viridiplantae(tdb, organism_id), "Viridiplantae",
    Elif(is_fungi(tdb, organism_id), "Fungi",
    Elif(is_chordata(tdb, organism_id), "Chordata",
    Elif(is_metazoa(tdb, organism_id), "Metazoa",
    Returned("None"))))))))

\* The chain with the Viridiplantae and Fungi arms exchanged.
cascade_fungi_first(tdb, organism_id) ==
    Elif(is_virus(tdb, organism_id), "Viruses",
    Elif(is_bacteria(tdb, organism_id), "Bacteria",
    Elif(is_archaea(tdb, organism_id), "Archaea",
    Elif(is_fungi(tdb, organism_id), "Fungi",
    Elif(is_viridiplantae(tdb, organism_id), "Viridiplantae",
    Elif(is_chordata(tdb, organism_id), "Chordata",
    Elif(is_metazoa(tdb, organism_id), "Metazoa",
    Returned("Eukaryota"))))))))

\* The body of Labeler.label_organism.
cascade(tdb, organism_id) ==
    Elif(is_virus(tdb, organism_id), "Viruses",
    Elif(is_bacteria(tdb, organism_id), "Bacteria",
    Elif(is_archaea(tdb, organism_id), "Archaea",
    Elif(is_viridiplantae(tdb, organism_id), "Viridiplantae",
    Elif(is_fungi(tdb, organism_id), "Fungi",
    Elif(is_chordata(tdb, organism_id), "Chordata",
    Elif(is_metazoa(tdb, organism_id), "Metazoa",
    Returned("Eukaryota"))))))))

Predicates ==
    {"is_virus", "is_cellular_organism", "is_eukaryote", "is_bacteria", "is_archaea",
     "is_viridiplantae", "is_fungi", "is_chordata", "is_metazoa"}

\* labeler.<p>(organism_id)
Predicate(p, tdb, organism_id) ==
    CASE p = "is_virus" -> is_virus(tdb, organism_id)
      [] p = "is_cellular_organism" -> is_cellular_organism(tdb, organism_id)
      [] p = "is_eukaryote" -> is_eukaryote(tdb, organism_id)
      [] p = "is_bacteria" -> is_bacteria(tdb, organism_id)
      [] p = "is_archaea" -> is_archaea(tdb, organism_id)
      [] p = "is_viridiplantae" -> is_viridiplantae(tdb, organism_id)
      [] p = "is_fungi" -> is_fungi(tdb, organism_id)
      [] p = "is_chordata" -> is_chordata(tdb, organism_id)
      [] p = "is_metazoa" -> is_metazoa(tdb, organism_id)

\* label_organism without @cache: every call runs the chain.
label_organism_uncached(tdb, m, ev, organism_id) ==
    LET r == cascade(tdb, organism_id) IN
    IF r.raised # "" THEN [memo |-> m, evals |-> ev, raised |-> r.raised, value |-> ""]
    ELSE [memo |-> SetItem(m, organism_id, r.value),
          evals |-> [ev EXCEPT ![organism_id] = @ + 1],
          raised |-> "", value |-> r.value]

\* Labeler.label_organism under @cache: a cached id is answered from the
\* cache; otherwise the chain runs and its label is cached.  A call that
\* raises caches nothing.
label_organism(tdb, m, ev, organism_id) ==
    IF organism_id \in DOMAIN m
    THEN [memo |-> m, evals |-> ev, raised |-> "", value |-> m[organism_id]]
    ELSE LET r == cascade(tdb, organism_id) IN
         IF r.raised # ""
         THEN [memo |-> m, evals |-> ev, raised |-> r.raised, value |-> ""]
         ELSE [memo |-> SetItem(m, organism_id, r.value),
               evals |-> [ev EXCEPT ![organism_id] = @ + 1],
               raised |-> "", value |-> r.value]

\* self.seq_df['organism_id'].map(self.label_organism): the calls in row
\* order from row k on; the first call that raises ends the map.
RECURSIVE MapLabels(_, _, _, _, _, _)
MapLabels(tdb, m, ev, ids, k, col) ==
    IF k > Len(ids)
    THEN [memo |-> m, evals |-> ev, raised |-> "", id |-> 0, col |-> col]
    ELSE CHOOSE out \in
             {IF r.raised # ""
              THEN [memo |-> r.memo, evals |-> r.evals, raised |-> r.raised,
                    id |-> ids[k], col |-> col]
              ELSE MapLabels(tdb, r.memo, r.evals, ids, k + 1, Append(col, r.value)) :
              r \in {label_organism(tdb, m, ev, ids[k])}} : TRUE

BoolName(b) == IF b THEN "True" ELSE "False"

\* The cache builder at rest, its snapshot file holding the taxonomy tdb.
BuilderAtRest(tdb) ==
    /\ seq_ids = <<>>
    /\ file = pickle_dump(tdb)
    /\ db = EmptyDb
    /\ pc = "none"
    /\ recreate = FALSE
    /\ save_interval = 1
    /\ idx = 1
    /\ count = 0
    /\ prev_count = 0
    /\ calls = <<>>
    /\ progress = <<>>
    /\ summary = <<>>
    /\ saves = 0
    /\ db0 = EmptyDb
    /\ file0 = file
    /\ last = NoRun
    /\ origin = file
    /\ wiped = FALSE
    /\ runs = 0

\* Labeler(db_file_path, seq_csv_path) over the snapshot and the id column.
NewLabeler(ids) ==
    /\ tax_db = load_taxonomy_db(file).value
    /\ seq_df = ids
    /\ memo = <<>>
    /\ label_col = <<>>
    /\ ret = NoCall
    /\ evals = [i \in LabelIds |-> 0]

\* A Labeler over a snapshot that holds id 1 with any lineage, and not id 2.
InitClassify ==
    /\ \E l \in Lineages : BuilderAtRest([i \in {1} |-> TaxEntry(i, l)])
    /\ NewLabeler(<<>>)
    /\ NoBalancing

\* One lineage for each label, as in the test data, an empty one and the
\* root of the cellular organisms.
SampleLineages ==
    {<<"Viruses">>,
     <<"Bacteria", "cellular organisms">>,
     <<"Archaea", "cellular organisms">>,
     <<"Viridiplantae", "Eukaryota", "cellular organisms">>,
     <<"Fungi", "Eukaryota", "cellular organisms">>,
     <<"Chordata", "Metazoa", "Eukaryota", "cellular organisms">>,
     <<"Metazoa", "Eukaryota", "cellular organisms">>,
     <<"Amoebozoa", "Eukaryota", "cellular organisms">>,
     <<>>,
     <<"cellular organisms">>}

\* A Labeler over a snapshot holding some of the ids, and a sequence table.
InitLabeler ==
    /\ \E S \in SUBSET LabelIds : \E f \in [S -> SampleLineages] :
           BuilderAtRest([i \in S |-> TaxEntry(i, f[i])])
    /\ \E ids \in UNION {[1..n -> LabelIds] : n \in 0..MaxRecords} : NewLabeler(ids)
    /\ NoBalancing

\* labeler.label_organism(organism_id)
LabelOrganism(organism_id) ==
    /\ \E r \in {label_organism(tax_db, memo, evals, organism_id)} :
       /\ memo' = r.memo
       /\ evals' = r.evals
       /\ ret' = [call |-> "label_organism", id |-> organism_id,
                  raised |-> r.raised, value |-> r.value]
    /\ UNCHANGED <<tax_db, seq_df, label_col, bvars, gvars>>

\* labeler.is_virus(organism_id), ..., labeler.is_metazoa(organism_id)
CallPredicate(p, organism_id) ==
    /\ \E r \in {Predicate(p, tax_db, organism_id)} :
       ret' = [call |-> p, id |-> organism_id, raised |-> r.raised,
               value |-> IF r.raised = "" THEN BoolName(r.value) ELSE ""]
    /\ UNCHANGED <<tax_db, seq_df, memo, label_col, evals, bvars, gvars>>

\* labeler.label_sequences(): the label column is assigned when the map
\* has returned.
LabelSequences ==
    /\ \E r \in {MapLabels(tax_db, memo, evals, seq_df, 1, <<>>)} :
       /\ memo' = r.memo
       /\ evals' = r.evals
       /\ label_col' = IF r.raised = "" THEN r.col ELSE label_col
       /\ ret' = [call |-> "label_sequences", id |-> r.id, raised |-> r.raised,
                  value |-> ""]
    /\ UNCHANGED <<tax_db, seq_df, bvars, gvars>>

NextClassify == \E i \in LabelIds : LabelOrganism(i)

SpecClassify == InitClassify /\ [][NextClassify]_vars

NextLabeler ==
    \/ \E i \in LabelIds : LabelOrganism(i)
    \/ \E p \in Predicates, i \in LabelIds : CallPredicate(p, i)
    \/ LabelSequences

SpecLabeler == InitLabeler /\ [][NextLabeler]_vars

\* ---------------------------------------------------- generate_balanced_data

\* The most records of a frame given to generate_balanced_data.
MaxRows == 4

\* frac_population is num/den with den up to MaxDen and num up to den.
MaxDen == 4

\* The labels of the frames, in the order groupby sorts its keys.
BalanceLabels == <<"Bacteria", "Chordata", "Viruses">>

Fractions == UNION {{[num |-> n, den |-> d] : n \in 0..d} : d \in 1..MaxDen}

\* The built-in round() on the non-negative num/den: to the nearest integer,
\* a tie to the even one.
py_round(num, den) ==
    LET q == num \div den
        r == num % den
    IN  IF 2 * r < den THEN q
        ELSE IF 2 * r > den THEN q + 1
        ELSE IF q % 2 = 0 THEN q ELSE q + 1

\* int(frac_population * len(data)) in the place of round(...).
sample_size_truncated(f, N) == (f.num * N) \div f.den

\* sample_size = round(frac_population * len(data))
sample_size(f, N) == py_round(f.num * N, f.den)

\* The rows of one group of data.groupby(header).
Group(d, lab) == {i \in 1..Len(d) : d[i] = lab}

\* The groups of data.groupby(header): one for each label that occurs.
GroupKeys(d) == {d[i] : i \in 1..Len(d)}

Record(d, i) == [index |-> i, label |-> d[i]]

\* The draws of n rows of the group G without replacement, in any order.
Take(d, G, n) ==
    {[j \in 1..n |-> Record(d, s[j])] :
        s \in {t \in [1..n -> G] : \A j, k \in 1..n : t[j] = t[k] => j = k}}

Min(a, b) == IF a <= b THEN a ELSE b

\* The draws of every group from the k-th key on, a group smaller than n
\* giving all its rows.
RECURSIVE SampleGroupsClamped(_, _, _)
SampleGroupsClamped(d, n, k) ==
    IF k > Len(BalanceLabels) THEN {<<>>}
    ELSE LET G == Group(d, BalanceLabels[k]) IN
         {s \o t : s \in Take(d, G, Min(n, Cardinality(G))),
                   t \in SampleGroupsClamped(d, n, k + 1)}

\* groupby(header).sample(n) that takes a whole group when it is smaller
\* than n.
groupby_sample_clamped(d, n) ==
    {[raised |-> "", rows |-> s] : s \in SampleGroupsClamped(d, n, 1)}

\* The draws of every group from the k-th key on, concatenated in key order.
RECURSIVE SampleGroups(_, _, _)
SampleGroups(d, n, k) ==
    IF k > Len(BalanceLabels) THEN {<<>>}
    ELSE LET G == Group(d, BalanceLabels[k]) IN
         {s \o t : s \in (IF G = {} THEN {<<>>} ELSE Take(d, G, n)),
                   t \in SampleGroups(d, n, k + 1)}

\* data.groupby(header).sample(n): the outcomes of the call.  Sampling is
\* without replacement, so a group smaller than n raises ValueError.
groupby_sample(d, n) ==
    IF \E lab \in GroupKeys(d) : Cardinality(Group(d, lab)) < n
    THEN {[raised |-> "ValueError", rows |-> <<>>]}
    ELSE {[raised |-> "", rows |-> s] : s \in SampleGroups(d, n, 1)}

\* A labelled frame and a fraction, no builder and no labeler at work.
InitBalance ==
    /\ BuilderAtRest(EmptyDb)
    /\ NoLabeler
    /\ data \in UNION {[1..n -> Range(BalanceLabels)] : n \in 1..MaxRows}
    /\ frac \in Fractions
    /\ balanced = [called |-> FALSE, raised |-> "", rows |-> <<>>]

\* generate_balanced_data(data, "label", frac_population)
GenerateBalancedData ==
    /\ \E out \in groupby_sample(data, sample_size(frac, Len(data))) :
          balanced' = [called |-> TRUE, raised |-> out.raised, rows |-> out.rows]
    /\ UNCHANGED <<data, frac, bvars, lvars>>

NextBalance == GenerateBalancedData

SpecBalance == InitBalance /\ [][NextBalance]_vars

\* ---------------------------------------------------------------- claims

\* The positions of a run after populate() was entered and before it failed.
Running == pc \in {"loop", "checkpoint", "final", "done"}

\* The ids lookup_uniprot_organism was called for in this run.
CalledIds == {calls[i].id : i \in 1..Len(calls)}

\* C1: a builder constructed with recreate=False after a run over the same
\* input that completed makes no call of lookup_uniprot_organism, and when
\* its populate() has completed self.db and the snapshot file are what they
\* were when the first run completed.
C1_IdempotentRerun ==
    (recreate = FALSE /\ last.pc = "done" /\ (Running \/ pc = "constructed")) =>
        /\ calls = <<>>
        /\ db = last.db
        /\ pc = "done" => file = last.file

\* A second run has completed over an input with a repeated id, the first
\* run having fetched entries.
C1_Witness ==
    /\ pc = "done" /\ recreate = FALSE /\ last.pc = "done"
    /\ Len(seq_ids) > Cardinality(Range(seq_ids))
    /\ \E i \in DOMAIN db : db[i] = lookup_uniprot_organism(i)

\* C2: in a run that has not failed, no id is looked up twice, no id that was
\* in the cache when the run started is looked up, the number of lookups is
\* the running count, and once the input is exhausted the ids looked up are
\* exactly the distinct ids of the input that the cache lacked at the start.
C2_FetchOncePerMissingId ==
    Running =>
        /\ \A i, j \in 1..Len(calls) : calls[i].id = calls[j].id => i = j
        /\ CalledIds \cap DOMAIN db0 = {}
        /\ Len(calls) = count
        /\ pc \in {"final", "done"} => CalledIds = Range(seq_ids) \ DOMAIN db0

\* A completed run over an input that repeats a fetched id and also names an
\* id that was loaded from the snapshot.
C2_Witness ==
    /\ pc = "done"
    /\ \E i, j \in 1..Len(seq_ids) : i # j /\ seq_ids[i] = seq_ids[j]
                                     /\ seq_ids[i] \in CalledIds
    /\ Range(seq_ids) \cap DOMAIN db0 # {}

\* C3: after a completed run the snapshot file loads, its keys are the keys
\* the cache held at the start of the run united with the distinct ids of
\* the input, and it equals self.db.
C3_CheckpointCompleteness ==
    pc = "done" =>
        LET r == load_taxonomy_db(file) IN
        /\ r.raised = ""
        /\ DOMAIN r.value = DOMAIN db0 \cup Range(seq_ids)
        /\ r.value = db

\* A completed run from an empty cache that added one entry more than the
\* checkpoint interval (N = K + 1).
C3_Witness ==
    /\ pc = "done" /\ db0 = EmptyDb
    /\ count = save_interval + 1
    /\ Len(seq_ids) = count

\* The cache as the last checkpoint of this run saved it: the entries held
\* at the start and the first prev_count entries fetched.
CheckpointCache ==
    LET ids == {calls[j].id : j \in 1..prev_count} IN
    [i \in DOMAIN db0 \cup ids |->
        IF i \in DOMAIN db0 THEN db0[i] ELSE lookup_uniprot_organism(i)]

\* C4: once a lookup has failed the run is over with the failure: the failed
\* call is the last call, its id is not in the cache, the summary was not
\* printed, the only saves of the run are its checkpoints, and the snapshot
\* file is the one the last checkpoint wrote, or the file as it was when the
\* builder was constructed if there was no checkpoint.
C4_AbortOnFetchFailure ==
    (\E i \in 1..Len(calls) : ~calls[i].ok) =>
        /\ pc = "failed"
        /\ \A i \in 1..Len(calls) : calls[i].ok <=> i < Len(calls)
        /\ calls[Len(calls)].id \notin DOMAIN db
        /\ summary = <<>>
        /\ saves = Len(progress)
        /\ saves = prev_count \div save_interval
        /\ file = IF prev_count = 0 THEN file0 ELSE pickle_dump(CheckpointCache)

\* A run has failed after a checkpoint replaced the file the builder found.
C4_Witness ==
    /\ pc = "failed"
    /\ prev_count > 0
    /\ file0.exists /\ file # file0

\* The cache a chain of aborted runs builds on: what the snapshot held when
\* the chain began, or nothing once a recreate=True run of the chain saved.
ChainBase == IF wiped THEN EmptyDb ELSE load_taxonomy_db(origin).value

\* What one populate() that meets no failure produces from the cache b.
Uninterrupted(b) ==
    [i \in DOMAIN b \cup Range(seq_ids) |->
        IF i \in DOMAIN b THEN b[i] ELSE lookup_uniprot_organism(i)]

\* C5: a run with recreate=False that completes after runs aborted by a
\* lookup failure leaves the snapshot an uninterrupted run would have left,
\* and looks up no id that the snapshot held when this run began.
C5_Resumable ==
    (pc = "done" /\ recreate = FALSE /\ last.pc = "failed") =>
        LET r == load_taxonomy_db(file) IN
        /\ r.raised = ""
        /\ r.value = Uninterrupted(ChainBase)
        /\ CalledIds \cap DOMAIN load_taxonomy_db(file0).value = {}

\* A resumed run has completed after two aborted runs, the last of which
\* had checkpointed an entry that the resumed run found in the snapshot.
C5_Witness ==
    /\ pc = "done" /\ recreate = FALSE /\ last.pc = "failed"
    /\ runs >= 3
    /\ \E i \in DOMAIN db0 : db0[i] = lookup_uniprot_organism(i)
    /\ count > 0

\* C6: the snapshot path never shows a file that is not a complete snapshot.
C6_AtomicSave == file.exists => file.complete

\* C7: at every iteration boundary the checkpoints made are one per positive
\* multiple of the interval the count has reached, each progress line
\* reports the interval, and while no entry was added since a checkpoint the
\* snapshot is the in-memory cache; a checkpoint is in progress only when
\* the count has just reached the next multiple.
C7_CheckpointRule ==
    /\ pc \in {"loop", "final", "done"} =>
        /\ Len(progress) = count \div save_interval
        /\ prev_count = save_interval * (count \div save_interval)
        /\ \A i \in 1..Len(progress) : progress[i] = save_interval
        /\ pc = "loop" => saves = Len(progress)
        /\ (pc = "loop" /\ count > 0 /\ count = prev_count) =>
               LET r == load_taxonomy_db(file) IN r.raised = "" /\ r.value = db
    /\ pc = "checkpoint" =>
        /\ count = prev_count + save_interval
        /\ count % save_interval = 0
        /\ Len(progress) = prev_count \div save_interval

\* After a checkpoint the loop has passed an id that was already cached.
C7_Witness ==
    /\ pc = "loop" /\ db0 = EmptyDb
    /\ count > 0 /\ count = prev_count
    /\ idx > 2
    /\ \E j \in 1..(idx - 2) : seq_ids[j] = seq_ids[idx - 1]

\* C8: a completed run has made one save more than its checkpoints, and its
\* summary is the number of entries added and the size of the cache at the
\* start plus that number.
C8_FinalSave ==
    pc = "done" =>
        /\ saves = Len(progress) + 1
        /\ saves = count \div save_interval + 1
        /\ summary = <<count, Cardinality(DOMAIN db0) + count>>

\* A completed run whose count is the interval: checkpoint, then final save.
C8_Witness ==
    /\ pc = "done"
    /\ count = save_interval
    /\ saves = 2

\* C9: no step of populate() removes an id from self.db or changes the entry
\* stored for it.
C9_WriteOnce ==
    [][(pc \in {"constructed", "loop", "checkpoint", "final"}) =>
         (\A i \in DOMAIN db : i \in DOMAIN db' /\ db'[i] = db[i])]_vars

\* The loop has just passed an id whose entry was loaded from an older
\* snapshot, and has fetched another.
C9_Witness ==
    /\ pc = "loop" /\ idx > 1
    /\ seq_ids[idx - 1] \in DOMAIN db0
    /\ db[seq_ids[idx - 1]] # lookup_uniprot_organism(seq_ids[idx - 1])
    /\ count > 0

\* C10: construction never raises on a missing snapshot, leaves the file as
\* it was, and yields the loaded snapshot with recreate=False when a file
\* exists, an empty cache otherwise.
C10_CacheInitialisation ==
    /\ pc # "init_error"
    /\ pc = "constructed" =>
        /\ file = file0
        /\ db = IF ~recreate /\ file.exists THEN pickle_load(file) ELSE EmptyDb

\* A builder was constructed with recreate=True over a snapshot with entries.
C10_Witness ==
    /\ pc = "constructed" /\ recreate
    /\ file.exists /\ file.items # {}

\* The names of the lineage the taxonomy holds for organism id i.
StoredLineage(i) ==
    [k \in 1..Len(tax_db[i].lineage) |-> tax_db[i].lineage[k].scientificName]

\* A call of label_organism for an id the taxonomy holds has ended.
Classified == ret.call = "label_organism" /\ ret.id \in DOMAIN tax_db

\* The lineage ends in "cellular organisms" preceded by "Eukaryota".
EukaryoteLineage(l) ==
    /\ Len(l) >= 2
    /\ l[Len(l)] = "cellular organisms"
    /\ l[Len(l) - 1] = "Eukaryota"

\* C11 as stated: for every stored lineage, the empty and the single-entry
\* ones included, label_organism returns a label of the fixed set.
C11_TotalOnAllLineages ==
    Classified => (ret.raised = "" /\ ret.value \in Labels)

\* C11: for every stored lineage that is neither empty nor the single entry
\* "cellular organisms", label_organism returns one label of the fixed set,
\* which is the label it keeps for the id and returns on every later call.
C11_TotalOnLongEnoughLineages ==
    Classified =>
        LET l == StoredLineage(ret.id) IN
        (l # <<>> /\ l # <<"cellular organisms">>) =>
            /\ ret.raised = ""
            /\ ret.value \in Labels
            /\ ret.id \in DOMAIN memo /\ memo[ret.id] = ret.value

\* label_organism has labelled a single-entry lineage.
C11_Witness ==
    /\ Classified /\ ret.raised = ""
    /\ Len(StoredLineage(ret.id)) = 1
    /\ ret.value = "Eukaryota"

\* C12: a lineage whose last entry is "Viruses" is labelled "Viruses".
C12_VirusPrecedence ==
    Classified =>
        LET l == StoredLineage(ret.id) IN
        (l # <<>> /\ l[Len(l)] = "Viruses") =>
            (ret.raised = "" /\ ret.value = "Viruses")

\* A lineage that names Bacteria and the cellular organisms before its last
\* entry "Viruses" was labelled.
C12_Witness ==
    /\ Classified
    /\ StoredLineage(ret.id) = <<"Bacteria", "cellular organisms", "Viruses">>
    /\ ret.value = "Viruses"

\* The label of the first predicate of the chain that holds for organism id
\* i, "Eukaryota" if none holds.
FirstMatch(i) ==
    LET Holds(p) == Predicate(p, tax_db, i).value IN
    IF Holds("is_virus") THEN "Viruses"
    ELSE IF Holds("is_bacteria") THEN "Bacteria"
    ELSE IF Holds("is_archaea") THEN "Archaea"
    ELSE IF Holds("is_viridiplantae") THEN "Viridiplantae"
    ELSE IF Holds("is_fungi") THEN "Fungi"
    ELSE IF Holds("is_chordata") THEN "Chordata"
    ELSE IF Holds("is_metazoa") THEN "Metazoa"
    ELSE "Eukaryota"

\* For a lineage of two entries or more: no predicate raises and the label
\* is the one of the first predicate that holds.
FirstMatchWins ==
    Classified =>
        LET l == StoredLineage(ret.id) IN
        Len(l) >= 2 =>
            /\ ret.raised = ""
            /\ \A p \in Predicates \ {"is_cellular_organism", "is_eukaryote"} :
                   Predicate(p, tax_db, ret.id).raised = ""
            /\ ret.value = FirstMatch(ret.id)

\* A eukaryote lineage naming Viridiplantae and Fungi is labelled
\* Viridiplantae.
PlantsBeforeFungi ==
    Classified =>
        LET l == StoredLineage(ret.id) IN
        (EukaryoteLineage(l) /\ {"Viridiplantae", "Fungi"} \subseteq Range(l)) =>
            ret.value = "Viridiplantae"

\* "Metazoa" is returned only for eukaryote lineages that name Metazoa and
\* none of Viridiplantae, Fungi, Chordata.
MetazoaOnlyWhen ==
    (Classified /\ ret.raised = "" /\ ret.value = "Metazoa") =>
        LET l == StoredLineage(ret.id) IN
        /\ EukaryoteLineage(l)
        /\ "Metazoa" \in Range(l)
        /\ Range(l) \cap {"Viridiplantae", "Fungi", "Chordata"} = {}

C17_TooShortLineages ==
    Classified =>
        LET l == StoredLineage(ret.id) IN
        /\ ret.raised = "IndexError" <=> (l = <<>> \/ l = <<"cellular organisms">>)
        /\ ret.raised \in {"", "IndexError"}
        /\ l = <<"Viruses">> => ret.value = "Viruses"
        /\ (Len(l) = 1 /\ l[1] \notin {"Viruses", "cellular organisms"}) =>
               ret.value = "Eukaryota"

\* label_organism has raised on the single entry "cellular organisms".
C17_Witness ==
    /\ Classified
    /\ StoredLineage(ret.id) = <<"cellular organisms">>
    /\ ret.raised = "IndexError"

\* C18: a lineage of two entries or more is labelled Eukaryota when it is a
\* eukaryote lineage naming none of the four sub-kingdoms, when its last
\* entry is neither "Viruses" nor "cellular organisms", and when its last
\* entry is "cellular organisms" and the entry before is none of Eukaryota,
\* Bacteria, Archaea.
C18_FallbackBucket ==
    Classified =>
        LET l == StoredLineage(ret.id)
            n == Len(l)
        IN
        n >= 2 =>
            /\ (/\ EukaryoteLineage(l)
                /\ Range(l) \cap {"Viridiplantae", "Fungi", "Chordata", "Metazoa"} = {})
                   => ret.value = "Eukaryota"
            /\ l[n] \notin {"Viruses", "cellular organisms"} => ret.value = "Eukaryota"
            /\ (/\ l[n] = "cellular organisms"
                /\ l[n - 1] \notin {"Eukaryota", "Bacteria", "Archaea"})
                   => ret.value = "Eukaryota"

\* A lineage that is not one of a eukaryote and names Fungi fell into the
\* fallback.
C18_Witness ==
    /\ Classified
    /\ StoredLineage(ret.id) = <<"Fungi", "Amoebozoa", "cellular organisms">>
    /\ ret.value = "Eukaryota"

\* C14: a call of label_organism or of an is_* predicate for an id the
\* taxonomy does not hold raises KeyError; no label is ever cached for such
\* an id, no lookup of the remote service is made and the taxonomy stays
\* the snapshot that was loaded.
C14_MissingLineage ==
    /\ (ret.call \in Predicates \cup {"label_organism"} /\ ret.id \notin DOMAIN tax_db)
           => (ret.raised = "KeyError" /\ ret.value = "")
    /\ DOMAIN memo \subseteq DOMAIN tax_db
    /\ calls = <<>>
    /\ tax_db = load_taxonomy_db(file).value

\* label_organism has raised for an id that is missing while another id
\* is cached.
C14_Witness ==
    /\ ret.call = "label_organism" /\ ret.id \notin DOMAIN tax_db
    /\ ret.raised = "KeyError"
    /\ memo # <<>>

\* C19: the chain returns a label at most once per id; a call that returns
\* answers the cached label; after label_sequences every record has one
\* label of the fixed set, the cached one of its id, so records that share
\* an id share the label.
C19_Memoization ==
    /\ \A i \in LabelIds : evals[i] = IF i \in DOMAIN memo THEN 1 ELSE 0
    /\ (ret.call = "label_organism" /\ ret.raised = "") =>
           (ret.id \in DOMAIN memo /\ ret.value = memo[ret.id])
    /\ (ret.call = "label_sequences" /\ ret.raised = "") =>
           /\ Len(label_col) = Len(seq_df)
           /\ \A j \in 1..Len(seq_df) :
                  /\ label_col[j] \in Labels
                  /\ label_col[j] = memo[seq_df[j]]
           /\ \A j, k \in 1..Len(seq_df) :
                  seq_df[j] = seq_df[k] => label_col[j] = label_col[k]

\* label_sequences has labelled two records of one organism.
C19_Witness ==
    /\ ret.call = "label_sequences" /\ ret.raised = ""
    /\ Len(seq_df) = 2 /\ seq_df[1] = seq_df[2]
    /\ label_col[1] = "Chordata"

\* The sample size the call of generate_balanced_data computes.
RequestedSize == py_round(frac.num * Len(data), frac.den)

\* Every label group of the frame has RequestedSize rows or more.
EveryGroupLargeEnough ==
    \A lab \in GroupKeys(data) : Cardinality(Group(data, lab)) >= RequestedSize

\* C15: when every label group has round(f*N) rows or more,
\* generate_balanced_data returns L * round(f*N) records, round(f*N) of each
\* label, each one a row of the frame with the label it has there, no row
\* twice.
C15_BalanceProportionality ==
    (balanced.called /\ EveryGroupLargeEnough) =>
        LET rows == balanced.rows IN
        /\ balanced.raised = ""
        /\ Len(rows) = Cardinality(GroupKeys(data)) * RequestedSize
        /\ \A lab \in GroupKeys(data) :
              Cardinality({j \in 1..Len(rows) : rows[j].label = lab}) = RequestedSize
        /\ \A j \in 1..Len(rows) :
              /\ rows[j].index \in 1..Len(data)
              /\ rows[j].label = data[rows[j].index]
        /\ \A j, k \in 1..Len(rows) : rows[j].index = rows[k].index => j = k

\* Two rows of each of two labels were drawn.
C15_Witness ==
    /\ balanced.called /\ balanced.raised = ""
    /\ RequestedSize = 2
    /\ Cardinality(GroupKeys(data)) = 2
    /\ Len(balanced.rows) = 4

\* C16: when a label group has fewer rows than round(f*N),
\* generate_balanced_data raises ValueError and returns no frame.
C16_OversizedRequest ==
    (balanced.called /\ ~EveryGroupLargeEnough) =>
        /\ balanced.raised = "ValueError"
        /\ balanced.rows = <<>>

\* The call raised over a frame in which one group is large enough and
\* another is not.
C16_Witness ==
    /\ balanced.called /\ balanced.raised = "ValueError"
    /\ RequestedSize >= 1
    /\ \E a, b \in GroupKeys(data) :
          /\ Cardinality(Group(data, a)) >= RequestedSize
          /\ Cardinality(Group(data, b)) < RequestedSize

\* The ids whose lookup returned in this run.
FetchedIds == {calls[i].id : i \in {j \in 1..Len(calls) : calls[j].ok}}

\* The entries of the cache d, among the ids S, that the snapshot file f
\* does not hold.
NotPersisted(d, f, S) ==
    LET snap == load_taxonomy_db(f).value IN
    {i \in S \cap DOMAIN d : i \notin DOMAIN snap \/ snap[i] # d[i]}

\* The ids the aborted run before this one had cached and the snapshot it
\* left does not hold.
LostIds == DOMAIN last.db \ DOMAIN load_taxonomy_db(last.file).value

\* C20: between two iterations of the loop, and when a lookup has aborted
\* the run, fewer than save_interval of the entries fetched in this run are
\* missing from the snapshot file; a recreate=False run that completes after
\* the aborted one has looked up every id whose entry was lost.
C20_BoundedLostWork ==
    /\ pc \in {"loop", "failed"} =>
          /\ Cardinality(NotPersisted(db, file, FetchedIds)) < save_interval
          /\ count - prev_count < save_interval
    /\ (pc = "done" /\ recreate = FALSE /\ last.pc = "failed") =>
          /\ LostIds \subseteq FetchedIds

\* A resumed run has completed after a run that was aborted with an entry
\* fetched since its last save.
C20_Witness ==
    /\ pc = "done" /\ recreate = FALSE /\ last.pc = "failed"
    /\ LostIds # {}

\* What a reader of the snapshot path gets: the pickled dict, or nothing
\* when the file is absent or was truncated and not yet written.
PersistedSnapshot == load_taxonomy_db(file).value

\* A save() is between its open() and the end of its pickle.dump.
SaveInProgress == file.exists /\ ~file.complete

\* A builder is alive: constructed, in populate(), or ended in any way.
BuilderAlive == pc \notin {"none", "init_error"}

\* C21: while a builder constructed with recreate=False is alive, the
\* snapshot file holds only ids of self.db, with the records self.db has for
\* them, and no step takes an id out of the file; until one constructed with
\* recreate=True begins its first save, the file is the one it found, and
\* once it has saved the file holds no id that self.db does not hold.
C21_SnapshotMonotonicity ==
    /\ [](BuilderAlive =>
            /\ (recreate = FALSE \/ saves > 0) =>
                  /\ DOMAIN PersistedSnapshot \subseteq DOMAIN db
                  /\ \A i \in DOMAIN PersistedSnapshot : PersistedSnapshot[i] = db[i]
            /\ (recreate = FALSE) =>
                  DOMAIN load_taxonomy_db(file0).value \subseteq DOMAIN PersistedSnapshot
            /\ (recreate = TRUE /\ saves = 0 /\ ~SaveInProgress) => file = file0)
    /\ [][(recreate = FALSE /\ recreate' = FALSE) =>
             DOMAIN PersistedSnapshot \subseteq DOMAIN PersistedSnapshot']_vars

\* The same with the time from the open() of a save() to the end of its
\* pickle.dump left out, for runs that are not killed in it.
SnapshotMonotoneBetweenSaves ==
    (BuilderAlive /\ ~SaveInProgress) =>
        /\ (recreate = FALSE \/ saves > 0) =>
              /\ DOMAIN PersistedSnapshot \subseteq DOMAIN db
              /\ \A i \in DOMAIN PersistedSnapshot : PersistedSnapshot[i] = db[i]
        /\ (recreate = FALSE) =>
              DOMAIN load_taxonomy_db(file0).value \subseteq DOMAIN PersistedSnapshot
        /\ (recreate = TRUE /\ saves = 0) => file = file0
        /\ (recreate = TRUE /\ pc = "done") => file = pickle_dump(db)

\* A recreate=True run over a snapshot with an id the input does not name
\* has completed: the id is gone from the file.
SnapshotReplaced ==
    /\ pc = "done" /\ recreate = TRUE
    /\ DOMAIN load_taxonomy_db(file0).value \ DOMAIN PersistedSnapshot # {}

====
